---- MODULE Spec2Model ----
(***************************************************************************)
(* A model of obsidian_to_latex: the ObsidianLatexSectionConverter class   *)
(* (src/obsidian_to_latex/converter.py) and the command line entry point   *)
(* (src/obsidian_to_latex/CLI.py).                                         *)
(*                                                                         *)
(* A text is a sequence of one-character strings.  Every pass of the       *)
(* converter is an operator on texts that computes what the Python code    *)
(* computes, regular expression by regular expression.  The passes run as  *)
(* the steps of convert(); save(), process_images(), convert_and_save()    *)
(* and main() act on a small file system.                                  *)
(***************************************************************************)
EXTENDS Integers, Sequences, FiniteSets, TLC

VARIABLES
    pc,        \* position of the running call
    raw,       \* text of the input file, as convert() read it
    prev,      \* text handed to the pass that ran last
    content,   \* the local variable 'content' of convert()
    metadata,  \* self.metadata
    adj,       \* level_adjustment
    fs,        \* the file system: path -> file content or NoFile
    clock,     \* datetime.now(), in whole seconds
    call,      \* arguments of the running call
    ret,       \* value returned by the last call that ended
    trace      \* the calls made so far by the running entry point

vars == <<pc, raw, prev, content, metadata, adj, fs, clock, call, ret, trace>>

(***************************************************************************)
(* Characters and texts                                                    *)
(***************************************************************************)
Chars(str) == [i \in 1..Len(str) |-> SubSeq(str, i, i)]

NL == "\n"
BS == "\\"
\* The backquote: a string of the module cannot hold the character itself,
\* so this value stands for it in every text
BT == "<backquote>"

Digits == {"0", "1", "2", "3", "4", "5", "6", "7", "8", "9"}

Letters ==
    {"a", "b", "c", "d", "e", "f", "g", "h", "i", "j", "k", "l", "m",
     "n", "o", "p", "q", "r", "s", "t", "u", "v", "w", "x", "y", "z",
     "A", "B", "C", "D", "E", "F", "G", "H", "I", "J", "K", "L", "M",
     "N", "O", "P", "Q", "R", "S", "T", "U", "V", "W", "X", "Y", "Z"}

\* \w of the re module
WordChars == Letters \cup Digits \cup {"_"}

\* The ASCII control characters a string of this module cannot hold are
\* written "<xNN>", NN their code in hexadecimal as repr prints it; the
\* function gives each unprintable character the two digits of its code.
Unprintable ==
    [c \in {"<x00>", "<x01>", "<x02>", "<x03>", "<x04>", "<x05>", "<x06>",
            "<x07>", "<x08>", "<x0b>", "\f", "<x0e>", "<x0f>", "<x10>",
            "<x11>", "<x12>", "<x13>", "<x14>", "<x15>", "<x16>", "<x17>",
            "<x18>", "<x19>", "<x1a>", "<x1b>", "<x1c>", "<x1d>", "<x1e>",
            "<x1f>", "<x7f>"} |->
        CASE c = "<x00>" -> <<"0", "0">> [] c = "<x01>" -> <<"0", "1">>
          [] c = "<x02>" -> <<"0", "2">> [] c = "<x03>" -> <<"0", "3">>
          [] c = "<x04>" -> <<"0", "4">> [] c = "<x05>" -> <<"0", "5">>
          [] c = "<x06>" -> <<"0", "6">> [] c = "<x07>" -> <<"0", "7">>
          [] c = "<x08>" -> <<"0", "8">> [] c = "<x0b>" -> <<"0", "b">>
          [] c = "\f" -> <<"0", "c">>    [] c = "<x0e>" -> <<"0", "e">>
          [] c = "<x0f>" -> <<"0", "f">> [] c = "<x10>" -> <<"1", "0">>
          [] c = "<x11>" -> <<"1", "1">> [] c = "<x12>" -> <<"1", "2">>
          [] c = "<x13>" -> <<"1", "3">> [] c = "<x14>" -> <<"1", "4">>
          [] c = "<x15>" -> <<"1", "5">> [] c = "<x16>" -> <<"1", "6">>
          [] c = "<x17>" -> <<"1", "7">> [] c = "<x18>" -> <<"1", "8">>
          [] c = "<x19>" -> <<"1", "9">> [] c = "<x1a>" -> <<"1", "a">>
          [] c = "<x1b>" -> <<"1", "b">> [] c = "<x1c>" -> <<"1", "c">>
          [] c = "<x1d>" -> <<"1", "d">> [] c = "<x1e>" -> <<"1", "e">>
          [] c = "<x1f>" -> <<"1", "f">> [] c = "<x7f>" -> <<"7", "f">>]

\* \s of the re module on a str, and what str.strip() removes: the
\* characters str.isspace() accepts (ASCII: space, \t, \n, \x0b, \x0c, \r,
\* \x1c, \x1d, \x1e, \x1f)
Whitespace ==
    {" ", "\t", "\n", "<x0b>", "\f", "\r", "<x1c>", "<x1d>", "<x1e>", "<x1f>"}

Min(S) == CHOOSE x \in S : \A y \in S : x <= y
Max(S) == CHOOSE x \in S : \A y \in S : x >= y

\* s[i:] of Python, for a 1-based i
From(s, i) == SubSeq(s, i, Len(s))

\* lit occurs in s at index i
StartsAt(s, lit, i) ==
    /\ i >= 1
    /\ i + Len(lit) - 1 <= Len(s)
    /\ \A k \in 1..Len(lit) : s[i + k - 1] = lit[k]

\* index of the first occurrence of lit in s at or after i; 0 when there is none
Find(s, lit, i) ==
    LET J == {j \in i..Len(s) : StartsAt(s, lit, j)}
    IN  IF J = {} THEN 0 ELSE Min(J)

\* index of the first newline at or after i, Len(s)+1 when the line is the last
LineEnd(s, i) ==
    LET J == {j \in i..Len(s) : s[j] = NL}
    IN  IF J = {} THEN Len(s) + 1 ELSE Min(J)

\* ^ under re.MULTILINE
AtLineStart(s, i) == i = 1 \/ (i >= 2 /\ i <= Len(s) + 1 /\ s[i - 1] = NL)

\* index of the first occurrence of lit at or after i on the line of i
\* (a group (.*?) without re.DOTALL does not cross a newline); 0 when none
FindOnLine(s, lit, i) ==
    LET j == Find(s, lit, i)
    IN  IF j > 0 /\ j <= LineEnd(s, i) THEN j ELSE 0

\* str.strip(): leading and trailing characters of 'set' removed
Strip(s, set) ==
    LET K == {k \in 1..Len(s) : s[k] \notin set}
    IN  IF K = {} THEN <<>> ELSE SubSeq(s, Min(K), Max(K))

\* str.split(sep) for a one-character separator: the sequence of fields
Split(s, sep) ==
    LET P == {k \in 1..Len(s) : s[k] = sep}
        F[i \in 1..Len(s) + 1] ==
            \* fields of s[i:]
            LET Q == {k \in P : k >= i}
            IN  IF Q = {} THEN <<SubSeq(s, i, Len(s))>>
                ELSE <<SubSeq(s, i, Min(Q) - 1)>> \o F[Min(Q) + 1]
    IN  F[1]

\* str.replace for one character by one character
ReplaceChar(s, old, new) == [k \in 1..Len(s) |-> IF s[k] = old THEN new ELSE s[k]]

\* str.join
RECURSIVE Join(_, _)
Join(parts, sep) ==
    IF parts = <<>> THEN <<>>
    ELSE IF Len(parts) = 1 THEN parts[1]
    ELSE parts[1] \o sep \o Join(Tail(parts), sep)

\* str.replace(old, new): every non-overlapping occurrence, left to right
ReplaceAll(s, old, new) ==
    LET F[i \in 1..Len(s) + 1] ==
            LET j == Find(s, old, i)
            IN  IF j = 0 THEN From(s, i)
                ELSE SubSeq(s, i, j - 1) \o new \o F[j + Len(old)]
    IN  IF old = <<>> THEN s ELSE F[1]

\* os.path.basename on POSIX: what follows the last slash
Basename(path) ==
    LET P == {k \in 1..Len(path) : path[k] = "/"}
    IN  IF P = {} THEN path ELSE SubSeq(path, Max(P) + 1, Len(path))

(***************************************************************************)
(* re.sub                                                                  *)
(***************************************************************************)
\* A match is [start, end, g1, g2]; end = 0 says the pattern does not match.
NoMatch == [start |-> 0, end |-> 0, g1 |-> <<>>, g2 |-> <<>>]
Match(a, b, x, y) == [start |-> a, end |-> b, g1 |-> x, g2 |-> y]

\* One candidate substitution: the end of the match that starts at a position
\* (0 when the pattern does not match there) and the text that replaces it
Sub(m, repl) ==
    IF m.end > 0 THEN [end |-> m.end, repl |-> repl] ELSE [end |-> 0, repl |-> <<>>]

\* re.sub(pattern, repl, s): subs[i] is the substitution for the match of the
\* pattern that starts at i.  The scan goes left to right, takes the leftmost
\* match and resumes after it.
ReSub(s, subs) ==
    LET Starts == {i \in 1..Len(s) : subs[i].end > 0}
        F[i \in 1..Len(s) + 1] ==
            \* the result for s[i:]
            LET N == {j \in Starts : j >= i}
            IN  IF N = {} THEN From(s, i)
                ELSE LET j == Min(N)
                     IN  SubSeq(s, i, j - 1) \o subs[j].repl \o F[subs[j].end + 1]
    IN  F[1]

\* Escapes the template parser of re knows besides digits, g and backslash
TemplateEscapes == {"a", "b", "f", "n", "r", "t", "v"}

\* The replacement template is parsed before any match is looked for; a
\* backslash followed by an ASCII letter that is no known escape raises
\* re.error("bad escape"), and so does a backslash that ends the template.
TemplateError(t) ==
    LET F[i \in 1..Len(t) + 1] ==
            \* an error in t[i:]: the parser goes from backslash to backslash
            LET b == Find(t, <<BS>>, i)
            IN  IF b = 0 THEN FALSE
                ELSE IF b = Len(t) THEN TRUE
                ELSE IF t[b + 1] \in (Letters \ TemplateEscapes) \ {"g"} THEN TRUE
                ELSE F[b + 2]
    IN  F[1]

\* Expansion of a template without errors for match m: \1 and \2 are the
\* groups, \\ a backslash, \n a newline, \t a tab; the rest is literal.
ExpandTemplate(t, m) ==
    LET F[i \in 1..Len(t) + 1] ==
            LET b == Find(t, <<BS>>, i)
            IN  IF b = 0 \/ b = Len(t) THEN From(t, i)
                ELSE SubSeq(t, i, b - 1)
                     \o (CASE t[b + 1] = "1" -> m.g1
                           [] t[b + 1] = "2" -> m.g2
                           [] t[b + 1] = BS -> <<BS>>
                           [] t[b + 1] = "n" -> <<NL>>
                           [] t[b + 1] = "t" -> <<"\t">>
                           [] OTHER -> <<BS, t[b + 1]>>)
                     \o F[b + 2]
    IN  F[1]

(***************************************************************************)
(* Python values of the metadata record: a str or a list of str            *)
(***************************************************************************)
PyStr(text) == [list |-> FALSE, items |-> <<text>>]
PyList(texts) == [list |-> TRUE, items |-> texts]

\* bool(v): an empty str and an empty list are false
Truthy(v) == IF v.list THEN v.items # <<>> ELSE v.items[1] # <<>>

\* repr of a str: quoted, with backslash, newline, tab, carriage return and
\* quote escaped and every other unprintable character written \xNN
ReprStr(text) ==
    LET dq == (\E k \in 1..Len(text) : text[k] = "'")
              /\ ~(\E k \in 1..Len(text) : text[k] = "\"")
        q == IF dq THEN "\"" ELSE "'"
        F[i \in 1..Len(text) + 1] ==
            IF i > Len(text) THEN <<>>
            ELSE (CASE text[i] = BS -> <<BS, BS>>
                    [] text[i] = NL -> <<BS, "n">>
                    [] text[i] = "\t" -> <<BS, "t">>
                    [] text[i] = "\r" -> <<BS, "r">>
                    [] text[i] = "'" /\ ~dq -> <<BS, "'">>
                    [] text[i] \in DOMAIN Unprintable ->
                           <<BS, "x">> \o Unprintable[text[i]]
                    [] OTHER -> <<text[i]>>) \o F[i + 1]
    IN  <<q>> \o F[1] \o <<q>>

\* str(v), as an f-string formats it
PyFormat(v) ==
    IF v.list
    THEN <<"[">> \o Join([k \in 1..Len(v.items) |-> ReprStr(v.items[k])], Chars(", "))
         \o <<"]">>
    ELSE v.items[1]

\* self.metadata as __init__ sets it
DefaultMetadata == [title |-> PyStr(<<>>), tags |-> PyList(<<>>)]

(***************************************************************************)
(* Frontmatter: r'^---\s*\n(.*?)\n---\s*\n' with re.DOTALL                 *)
(***************************************************************************)
\* index of the last character of the whitespace run that starts at i
WsRunEnd(s, i) ==
    LET J == {j \in i..Len(s) : s[j] \notin Whitespace}
    IN  IF J = {} THEN Len(s) ELSE Min(J) - 1

\* ---\s*\n at i: the indices where it can end (the newlines of the
\* whitespace run after the dashes)
DelimEnds(s, i) ==
    IF StartsAt(s, Chars("---"), i)
    THEN {p \in (i + 3)..WsRunEnd(s, i + 3) : s[p] = NL}
    ELSE {}

\* The match of the frontmatter pattern at the start of s.  \s* is greedy:
\* the opening delimiter ends at the last newline after which a closing
\* delimiter can still be found; the group is minimal; the closing \s* is
\* greedy again.
FrontmatterMatch(s) ==
    LET Q(p) == {q \in (p + 1)..Len(s) : s[q] = NL /\ DelimEnds(s, q + 1) # {}}
        P == {p \in DelimEnds(s, 1) : Q(p) # {}}
    IN  IF P = {} THEN NoMatch
        ELSE LET p == Max(P)
                 q == Min(Q(p))
             IN  Match(1, Max(DelimEnds(s, q + 1)), SubSeq(s, p + 1, q - 1), <<>>)

\* One line of the block: key, value = line.split(':', 1), both stripped; a
\* value that starts with a dash becomes a list of its (one) dash-stripped item
FrontmatterValue(value) ==
    IF value # <<>> /\ value[1] = "-"
    THEN LET items == Split(value, NL)
         IN  PyList([k \in 1..Len(items) |-> Strip(items[k], {"-", " "})])
    ELSE PyStr(value)

\* The dict 'frontmatter' after the loop over yaml_text.split('\n'), as the
\* sequence of its (key, value) assignments in order
FrontmatterItems(yaml) ==
    LET lines == Split(yaml, NL)
        F[i \in 1..Len(lines) + 1] ==
            IF i > Len(lines) THEN <<>>
            ELSE LET line == lines[i]
                     c == Find(line, <<":">>, 1)
                 IN  IF c = 0 THEN F[i + 1]
                     ELSE <<[key |-> Strip(SubSeq(line, 1, c - 1), Whitespace),
                             value |-> FrontmatterValue(
                                           Strip(From(line, c + 1), Whitespace))]>>
                          \o F[i + 1]
    IN  F[1]

\* self.metadata after 'for key, value in frontmatter.items()': the last
\* assignment to a key that self.metadata has wins
RECURSIVE UpdateMetadata(_, _)
UpdateMetadata(md, items) ==
    IF items = <<>> THEN md
    ELSE LET it == Head(items)
             md2 == IF it.key = Chars("title") THEN [md EXCEPT !.title = it.value]
                    ELSE IF it.key = Chars("tags") THEN [md EXCEPT !.tags = it.value]
                    ELSE md
         IN  UpdateMetadata(md2, Tail(items))

\* extract_frontmatter: the metadata record it leaves behind
extract_frontmatter(s, md) ==
    LET m == FrontmatterMatch(s)
    IN  IF m.end > 0 THEN UpdateMetadata(md, FrontmatterItems(m.g1)) ELSE md

\* remove_frontmatter: ^ without re.MULTILINE matches at the start only
remove_frontmatter(s) ==
    LET m == FrontmatterMatch(s)
    IN  IF m.end > 0 THEN From(s, m.end + 1) ELSE s

(***************************************************************************)
(* Comments: r'%%.*?%%' with re.DOTALL                                     *)
(***************************************************************************)
\* The pattern without re.DOTALL: a comment ends on the line it starts on
CommentMatchOnLine(s, i) ==
    LET j == IF StartsAt(s, Chars("%%"), i) THEN FindOnLine(s, Chars("%%"), i + 2) ELSE 0
    IN  IF j > 0 THEN Match(i, j + 1, <<>>, <<>>) ELSE NoMatch

CommentMatch(s, i) ==
    LET j == IF StartsAt(s, Chars("%%"), i) THEN Find(s, Chars("%%"), i + 2) ELSE 0
    IN  IF j > 0 THEN Match(i, j + 1, <<>>, <<>>) ELSE NoMatch

Deleted(s, m) == <<>>

remove_comments(s) == ReSub(s, [i \in 1..Len(s) |->
                            Sub(CommentMatch(s, i), Deleted(s, CommentMatch(s, i)))])

(***************************************************************************)
(* Headers                                                                 *)
(***************************************************************************)
section_commands ==
    <<Chars("\\section"), Chars("\\subsection"), Chars("\\subsubsection"),
      Chars("\\paragraph"), Chars("\\subparagraph")>>

\* latex_level of loop index i (0-based), clamped into the table
LatexLevel(i, a) ==
    LET l == i + a
        lo == IF l < 0 THEN 0 ELSE l
    IN  IF lo >= Len(section_commands) THEN Len(section_commands) - 1 ELSE lo

\* replacement = fr'{section_commands[latex_level]}{{\1}}'
HeaderTemplate(i, a) == section_commands[LatexLevel(i, a) + 1] \o Chars("{\\1}")

\* r'^' + re.escape('#' * md_level) + r' (.*?)$' with re.MULTILINE at i
HeaderMatch(s, i, level) ==
    LET lit == [k \in 1..level |-> "#"] \o <<" ">>
    IN  IF AtLineStart(s, i) /\ StartsAt(s, lit, i)
        THEN Match(i, LineEnd(s, i) - 1, SubSeq(s, i + level + 1, LineEnd(s, i) - 1), <<>>)
        ELSE NoMatch

\* re.sub for one header level with an error-free template
SubHeaders(s, level, template) ==
    ReSub(s, [i \in 1..Len(s) |->
          Sub(HeaderMatch(s, i, level),
                     ExpandTemplate(template, HeaderMatch(s, i, level)))])

\* The loop 'for i in range(5)' from index i on.  re.sub raises on a bad
\* template before it looks for a match; the except clause then returns
\* the local 'content', which holds the result of the earlier iterations.
RECURSIVE HeaderLoop(_, _, _)
HeaderLoop(s, i, a) ==
    IF i >= 5 THEN s
    ELSE IF TemplateError(HeaderTemplate(i, a)) THEN s
    ELSE HeaderLoop(SubHeaders(s, i + 1, HeaderTemplate(i, a)), i + 1, a)

convert_headers(s, a) == HeaderLoop(s, 0, a)

(***************************************************************************)
(* Lists                                                                   *)
(***************************************************************************)
\* r'^- (.*?)$' with re.MULTILINE at i
BulletMatch(s, i) ==
    IF AtLineStart(s, i) /\ StartsAt(s, Chars("- "), i)
    THEN Match(i, LineEnd(s, i) - 1, SubSeq(s, i + 2, LineEnd(s, i) - 1), <<>>)
    ELSE NoMatch

\* r'\\item \1'
ItemTemplate == Chars("\\\\item \\1")

ItemRepl(s, m) == ExpandTemplate(ItemTemplate, m)

\* one line r'^\\item .*\n' at i: the index of its newline, 0 when no match
ItemLineEnd(s, i) ==
    IF AtLineStart(s, i) /\ StartsAt(s, Chars("\\item "), i) /\ LineEnd(s, i) <= Len(s)
    THEN LineEnd(s, i)
    ELSE 0

\* r'((?:^\\item .*\n)+)' at i: the index of the newline that ends the run
RECURSIVE ItemRunEnd(_, _)
ItemRunEnd(s, i) ==
    LET e == ItemLineEnd(s, i)
    IN  IF e = 0 THEN 0
        ELSE IF ItemLineEnd(s, e + 1) > 0 THEN ItemRunEnd(s, e + 1)
        ELSE e

\* re.findall of the runs: the blocks, in order
ItemBlocks(s) ==
    LET Starts == {i \in 1..Len(s) : ItemLineEnd(s, i) > 0}
        F[i \in 1..Len(s) + 1] ==
            LET N == {j \in Starts : j >= i}
            IN  IF N = {} THEN <<>>
                ELSE LET e == ItemRunEnd(s, Min(N))
                     IN  <<SubSeq(s, Min(N), e)>> \o F[e + 1]
    IN  F[1]

\* fr"\begin{{itemize}}\n{block}\end{{itemize}}\n": a raw string, so both
\* \n are a backslash and an n, not a newline
Itemize(block) == Chars("\\begin{itemize}\\n") \o block \o Chars("\\end{itemize}\\n")

\* for block in item_blocks: content = content.replace(block, ...)
RECURSIVE WrapBlocks(_, _)
WrapBlocks(s, blocks) ==
    IF blocks = <<>> THEN s
    ELSE WrapBlocks(ReplaceAll(s, Head(blocks), Itemize(Head(blocks))), Tail(blocks))

convert_lists(s) ==
    IF TemplateError(ItemTemplate) THEN s
    ELSE LET items == ReSub(s, [i \in 1..Len(s) |->
                            Sub(BulletMatch(s, i), ItemRepl(s, BulletMatch(s, i)))])
         IN  WrapBlocks(items, ItemBlocks(items))

(***************************************************************************)
(* Patterns open(.*?)close and open(.*?)mid(.*?)close                      *)
(***************************************************************************)
\* open(.*?)close at i, the group on one line: the group ends at the first
\* close that follows on the line
OneGroupMatch(s, i, open, close) ==
    LET j == IF StartsAt(s, open, i) THEN FindOnLine(s, close, i + Len(open)) ELSE 0
    IN  IF j > 0
        THEN Match(i, j + Len(close) - 1, SubSeq(s, i + Len(open), j - 1), <<>>)
        ELSE NoMatch

\* open(.*?)mid(.*?)close at i, both groups on one line: the first group
\* ends at the first mid, the second at the first close after it
TwoGroupMatch(s, i, open, mid, close) ==
    LET j == IF StartsAt(s, open, i) THEN FindOnLine(s, mid, i + Len(open)) ELSE 0
        k == IF j > 0 THEN FindOnLine(s, close, j + Len(mid)) ELSE 0
    IN  IF k > 0
        THEN Match(i, k + Len(close) - 1, SubSeq(s, i + Len(open), j - 1),
                   SubSeq(s, j + Len(mid), k - 1))
        ELSE NoMatch

(***************************************************************************)
(* Images                                                                  *)
(***************************************************************************)
\* self.figures_dir = figures_dir or "figures"
figures_dir == Chars("figures")

\* str.isdigit() for ASCII text
IsDigit(text) == text # <<>> /\ \A k \in 1..Len(text) : text[k] \in Digits

\* size_info of replace_image for the text between ![[ and ]]
SizeInfo(g) ==
    LET fields == Split(g, "|")
        size == Strip(fields[2], Whitespace)
    IN  IF Len(fields) >= 2 /\ IsDigit(size)
        THEN Chars("[width=") \o size \o Chars("pt]")
        ELSE <<>>

\* filename = os.path.basename(image_path)
ImageFilename(g) == Basename(Strip(Split(g, "|")[1], Whitespace))

\* clean_filename = re.sub(r'[^\w\.-]', '_', filename)
CleanFilename(filename) ==
    [k \in 1..Len(filename) |->
        IF filename[k] \in WordChars \cup {".", "-"} THEN filename[k] ELSE "_"]

\* caption = filename.replace('_', ' ').split('.')[0]
Caption(filename) == Split(ReplaceChar(filename, "_", " "), ".")[1]

\* label = f"fig:{clean_filename.replace('.', '_')}"
Label(filename) == Chars("fig:") \o ReplaceChar(CleanFilename(filename), ".", "_")

\* The figure block both image syntaxes emit
Figure(size_info, file, caption, label) ==
    Chars("\n\\begin{figure}[htbp]\n    \\centering\n    \\includegraphics")
    \o size_info \o <<"{">> \o figures_dir \o <<"/">> \o file
    \o Chars("}\n    \\caption{") \o caption
    \o Chars("}\n    \\label{") \o label
    \o Chars("}\n\\end{figure}\n")

\* replace_image for the text g between ![[ and ]]
replace_image(g) ==
    Figure(SizeInfo(g), CleanFilename(ImageFilename(g)), Caption(ImageFilename(g)),
           Label(ImageFilename(g)))

\* _process_md_image for ![alt](path)
process_md_image(alt, path) ==
    Figure(<<>>, Basename(path), alt,
           Chars("fig:") \o ReplaceChar(Basename(path), ".", "_"))

\* r'!\[\[(.*?)\]\]'
EmbedMatch(s, i) == OneGroupMatch(s, i, Chars("![["), Chars("]]"))
EmbedRepl(s, m) == replace_image(m.g1)

\* r'!\[(.*?)\]\((.*?)\)'
MdImageMatch(s, i) == TwoGroupMatch(s, i, Chars("!["), Chars("]("), Chars(")"))
MdImageRepl(s, m) == process_md_image(m.g1, m.g2)

convert_images(s) ==
    LET s1 == ReSub(s, [i \in 1..Len(s) |->
                    Sub(EmbedMatch(s, i), EmbedRepl(s, EmbedMatch(s, i)))])
    IN  ReSub(s1, [i \in 1..Len(s1) |->
              Sub(MdImageMatch(s1, i), MdImageRepl(s1, MdImageMatch(s1, i)))])

(***************************************************************************)
(* Links                                                                   *)
(***************************************************************************)
\* r'\[\[(.*?)\|(.*?)\]\]' -> r'\\textit{\2}'
DisplayLinkMatch(s, i) == TwoGroupMatch(s, i, Chars("[["), Chars("|"), Chars("]]"))
DisplayLinkTemplate == Chars("\\\\textit{\\2}")
DisplayLinkRepl(s, m) == ExpandTemplate(DisplayLinkTemplate, m)

\* r'\[\[(.*?)\]\]' -> r'\\textit{\1}'
PlainLinkMatch(s, i) == OneGroupMatch(s, i, Chars("[["), Chars("]]"))
PlainLinkTemplate == Chars("\\\\textit{\\1}")
PlainLinkRepl(s, m) == ExpandTemplate(PlainLinkTemplate, m)

\* r'\[(.*?)\]\((.*?)\)' -> r'\\href{\2}{\1}'
MdLinkMatch(s, i) == TwoGroupMatch(s, i, Chars("["), Chars("]("), Chars(")"))
MdLinkTemplate == Chars("\\\\href{\\2}{\\1}")
MdLinkRepl(s, m) == ExpandTemplate(MdLinkTemplate, m)

\* Three substitutions in order; one that raises leaves the text of the
\* substitutions before it
convert_internal_links(s) ==
    IF TemplateError(DisplayLinkTemplate) THEN s
    ELSE LET s1 == ReSub(s, [i \in 1..Len(s) |->
                         Sub(DisplayLinkMatch(s, i), DisplayLinkRepl(s, DisplayLinkMatch(s, i)))])
         IN  IF TemplateError(PlainLinkTemplate) THEN s1
             ELSE LET s2 == ReSub(s1, [i \in 1..Len(s1) |->
                                  Sub(PlainLinkMatch(s1, i),
                                      PlainLinkRepl(s1, PlainLinkMatch(s1, i)))])
                  IN  IF TemplateError(MdLinkTemplate) THEN s2
                      ELSE ReSub(s2, [i \in 1..Len(s2) |->
                                 Sub(MdLinkMatch(s2, i), MdLinkRepl(s2, MdLinkMatch(s2, i)))])

(***************************************************************************)
(* Emphasis                                                                *)
(***************************************************************************)
\* r'\*\*(.*?)\*\*' -> r'\\textbf{\1}'
BoldMatch(s, i) == OneGroupMatch(s, i, Chars("**"), Chars("**"))
BoldTemplate == Chars("\\\\textbf{\\1}")
BoldRepl(s, m) == ExpandTemplate(BoldTemplate, m)

\* r'\*(.*?)\*' -> r'\\textit{\1}'
ItalicMatch(s, i) == OneGroupMatch(s, i, Chars("*"), Chars("*"))
ItalicTemplate == Chars("\\\\textit{\\1}")
ItalicRepl(s, m) == ExpandTemplate(ItalicTemplate, m)

\* r'~~(.*?)~~' -> r'\\sout{\1}'
StrikeMatch(s, i) == OneGroupMatch(s, i, Chars("~~"), Chars("~~"))
StrikeTemplate == Chars("\\\\sout{\\1}")
StrikeRepl(s, m) == ExpandTemplate(StrikeTemplate, m)

convert_emphasis(s) ==
    IF TemplateError(BoldTemplate) THEN s
    ELSE LET s1 == ReSub(s, [i \in 1..Len(s) |->
                         Sub(BoldMatch(s, i), BoldRepl(s, BoldMatch(s, i)))])
         IN  IF TemplateError(ItalicTemplate) THEN s1
             ELSE LET s2 == ReSub(s1, [i \in 1..Len(s1) |->
                                  Sub(ItalicMatch(s1, i), ItalicRepl(s1, ItalicMatch(s1, i)))])
                  IN  IF TemplateError(StrikeTemplate) THEN s2
                      ELSE ReSub(s2, [i \in 1..Len(s2) |->
                                 Sub(StrikeMatch(s2, i), StrikeRepl(s2, StrikeMatch(s2, i)))])

(***************************************************************************)
(* Code blocks                                                             *)
(***************************************************************************)
Fence == <<BT, BT, BT>>

\* The pattern fence (.*?) \n (.*?) fence with re.DOTALL at i: the first group ends at the
\* first newline, the second at the first fence after it
FenceMatch(s, i) ==
    LET n == IF StartsAt(s, Fence, i) THEN Find(s, <<NL>>, i + 3) ELSE 0
        k == IF n > 0 THEN Find(s, Fence, n + 1) ELSE 0
    IN  IF k > 0
        THEN Match(i, k + 2, SubSeq(s, i + 3, n - 1), SubSeq(s, n + 1, k - 1))
        ELSE NoMatch

\* code.strip().startswith('$') and code.strip().endswith('$')
IsMathBlock(code) ==
    LET t == Strip(code, Whitespace)
    IN  t # <<>> /\ t[1] = "$" /\ t[Len(t)] = "$"

\* replace_code_block; the \n of both raw f-strings are a backslash and an n
replace_code_block(s, m) ==
    LET language == Strip(m.g1, Whitespace)
        code == m.g2
    IN  IF IsMathBlock(code) THEN SubSeq(s, m.start, m.end)
        ELSE IF language = <<>>
        THEN Chars("\\begin{verbatim}\\n") \o code \o Chars("\\n\\end{verbatim}")
        ELSE Chars("\\begin{lstlisting}[language=") \o language \o Chars("]\\n")
             \o code \o Chars("\\n\\end{lstlisting}")

\* backquote ([^backquote]+) backquote -> r'\\texttt{\1}'
InlineCodeMatch(s, i) ==
    LET j == IF StartsAt(s, <<BT>>, i) /\ i + 1 <= Len(s) /\ s[i + 1] # BT
             THEN Find(s, <<BT>>, i + 2) ELSE 0
    IN  IF j > 0 THEN Match(i, j, SubSeq(s, i + 1, j - 1), <<>>) ELSE NoMatch
InlineCodeTemplate == Chars("\\\\texttt{\\1}")
InlineCodeRepl(s, m) == ExpandTemplate(InlineCodeTemplate, m)

\* The fenced blocks alone (the first re.sub)
ConvertFences(s) == ReSub(s, [i \in 1..Len(s) |->
                          Sub(FenceMatch(s, i), replace_code_block(s, FenceMatch(s, i)))])

convert_code_blocks(s) ==
    LET s1 == ConvertFences(s)
    IN  IF TemplateError(InlineCodeTemplate) THEN s1
        ELSE ReSub(s1, [i \in 1..Len(s1) |->
                   Sub(InlineCodeMatch(s1, i), InlineCodeRepl(s1, InlineCodeMatch(s1, i)))])

(***************************************************************************)
(* Math                                                                    *)
(***************************************************************************)
\* r'\\begin{aligned}(.*?)\\end{aligned}' with re.DOTALL
AlignedMatch(s, i) ==
    LET open == Chars("\\begin{aligned}")
        close == Chars("\\end{aligned}")
        j == IF StartsAt(s, open, i) THEN Find(s, close, i + Len(open)) ELSE 0
    IN  IF j > 0
        THEN Match(i, j + Len(close) - 1, SubSeq(s, i + Len(open), j - 1), <<>>)
        ELSE NoMatch
AlignedTemplate == Chars("\\\\begin{aligned}\\1\\\\end{aligned}")
AlignedRepl(s, m) == ExpandTemplate(AlignedTemplate, m)

preserve_math(s) ==
    IF TemplateError(AlignedTemplate) THEN s ELSE ReSub(s, [i \in 1..Len(s) |->
                                                        Sub(AlignedMatch(s, i),
                                                            AlignedRepl(s, AlignedMatch(s, i)))])

(***************************************************************************)
(* The header comment                                                      *)
(***************************************************************************)
\* The comment add_section_comment builds for metadata md and input path
SectionComment(md, input_file) ==
    Chars("% Auto-generated from Obsidian markdown\n")
    \o Chars("% Source: ") \o Basename(input_file) \o <<NL>>
    \o (IF Truthy(md.title) THEN Chars("% Title: ") \o PyFormat(md.title) \o <<NL>>
        ELSE <<>>)
    \o (IF Truthy(md.tags)
        THEN Chars("% Tags: ")
             \o (IF md.tags.list THEN Join(md.tags.items, Chars(", "))
                 ELSE PyFormat(md.tags))
             \o <<NL>>
        ELSE <<>>)
    \o Chars("%\n\n")

add_section_comment(s, md, input_file) == SectionComment(md, input_file) \o s

(***************************************************************************)
(* Files                                                                   *)
(***************************************************************************)
\* A path that names no file, and Python's None
NoFile == <<"<no file>">>
None == <<"<None>">>

\* self.input_file
input_file == Chars("notes/in.md")

\* Path.cwd() of main
Cwd == Chars("/home/u/thesis")

\* Path(p).parts on POSIX: the root first when p is absolute ("//" for
\* exactly two leading slashes, "/" otherwise), then the components between
\* slashes without the empty ones and the "." ones; ".." is kept
PathParts(p) ==
    LET J == {j \in 1..Len(p) : p[j] # "/"}
        lead == IF J = {} THEN Len(p) ELSE Min(J) - 1
        root == IF lead = 0 THEN <<>>
                ELSE IF lead = 2 THEN <<Chars("//")>> ELSE <<Chars("/")>>
        Named(x) == x # <<>> /\ x # <<".">>
    IN  root \o SelectSeq(Split(p, "/"), Named)

\* Path(args.output).relative_to(Path.cwd()) raises ValueError unless the
\* parts of the working directory begin the parts of the output path; with
\* no parts to begin with, it raises when the output path is absolute
RelativeToRaises(path, cwd) ==
    LET parts == PathParts(path)
        to == PathParts(cwd)
    IN  IF to = <<>> THEN path # <<>> /\ path[1] = "/"
        ELSE ~(Len(to) <= Len(parts) /\ SubSeq(parts, 1, Len(to)) = to)

\* self.image_extensions
image_extensions ==
    {Chars(".png"), Chars(".jpg"), Chars(".jpeg"), Chars(".pdf"), Chars(".svg"),
     Chars(".excalidraw.png")}

\* possible_attachment_dirs of process_images, relative to the input file
possible_attachment_dirs == {"attachments", "assets", "images", "../attachments"}

UpperSeq == Chars("ABCDEFGHIJKLMNOPQRSTUVWXYZ")
LowerSeq == Chars("abcdefghijklmnopqrstuvwxyz")

\* str.lower() for ASCII text
Lower(text) ==
    [k \in 1..Len(text) |->
        IF \E u \in 1..Len(UpperSeq) : UpperSeq[u] = text[k]
        THEN LowerSeq[CHOOSE u \in 1..Len(UpperSeq) : UpperSeq[u] = text[k]]
        ELSE text[k]]

\* str.endswith
EndsWith(text, suffix) ==
    /\ Len(text) >= Len(suffix)
    /\ SubSeq(text, Len(text) - Len(suffix) + 1, Len(text)) = suffix

\* any(file.lower().endswith(ext) for ext in self.image_extensions)
IsImageFile(name) == \E ext \in image_extensions : EndsWith(Lower(name), ext)

\* What open(self.output_file, 'w') and f.write(latex_content) can do: -1,
\* open() raises and the file is as it was; n below the length of the text,
\* the file was created or truncated and holds the first n characters when
\* the write raises (a full disk, a quota); the length, all is written
WriteOutcomes(latex_content) == -1..Len(latex_content)

\* What shutil.copy2(self.output_file, backup_file) can do: -1, it raises
\* before it opens the backup file; n below the length of the output file's
\* text, the backup file was created or truncated and holds the first n
\* characters when the copy raises; the length, the whole text is copied
CopyOutcomes(f) == IF f.output = NoFile THEN {-1} ELSE -1..Len(f.output)

\* save() without the early return of the skip mode
save_without_skip(f, latex_content, overwrite_mode, now, copied, written) ==
    IF latex_content = <<>> THEN [fs |-> f, ok |-> FALSE]
    ELSE LET backed ==
                 IF f.output # NoFile /\ overwrite_mode = "backup" /\ copied >= 0
                 THEN [f EXCEPT !.backups[now] = SubSeq(f.output, 1, copied)]
                 ELSE f
         IN  IF written < 0 THEN [fs |-> backed, ok |-> FALSE]
             ELSE [fs |-> [backed EXCEPT !.output = SubSeq(latex_content, 1, written)],
                   ok |-> written = Len(latex_content)]

\* The file system f after save(latex_content, overwrite_mode) at time now,
\* and the value save returns.  copied is the outcome of shutil.copy2 of the
\* backup, whose failure is logged and passed over; written is the outcome
\* of the with statement, whose failure makes save return False.  A failure
\* of os.makedirs is the outcome -1 of the write on a missing output file.
save(f, latex_content, overwrite_mode, now, copied, written) ==
    IF latex_content = <<>> THEN [fs |-> f, ok |-> FALSE]
    ELSE IF f.output # NoFile /\ overwrite_mode = "skip" THEN [fs |-> f, ok |-> TRUE]
    ELSE LET backed ==
                 IF f.output # NoFile /\ overwrite_mode = "backup" /\ copied >= 0
                 THEN [f EXCEPT !.backups[now] = SubSeq(f.output, 1, copied)]
                 ELSE f
         IN  IF written < 0 THEN [fs |-> backed, ok |-> FALSE]
             ELSE [fs |-> [backed EXCEPT !.output = SubSeq(latex_content, 1, written)],
                   ok |-> written = Len(latex_content)]

\* The names process_images copies: the image files of the candidate
\* directories that exist, but for those whose copy fails
CopiedNames(f, failing) ==
    {n \in UNION {f.attachments[d] : d \in possible_attachment_dirs} :
        IsImageFile(n) /\ n \notin failing}

\* The file system after process_images()
process_images(f, failing) ==
    [f EXCEPT !.figures = f.figures \cup CopiedNames(f, failing)]

(***************************************************************************)
(* Bounds and inputs                                                       *)
(***************************************************************************)
\* Fragments a document is put together from, at most
MaxFrags == 3
\* Seconds the clock can advance
MaxClock == 2
\* Calls of save() in a row on one converter
MaxSaves == 3
\* Fragments of a document with frontmatter, at most
MaxFrontFrags == 4
\* Fragments of a document that goes through the whole pipeline, at most
MaxPipeFrags == 3
\* Calls of convert() on one converter, at most
MaxConverts == 2
\* Statements that raise during one convert(), at most
MaxFaults == 1
\* Fragments of a document converted with a statement that raises, at most
MaxFaultFrags == 2

\* The concatenation of a sequence of texts
RECURSIVE Flatten(_)
Flatten(texts) == IF texts = <<>> THEN <<>> ELSE Head(texts) \o Flatten(Tail(texts))

\* The documents made of at most n fragments of F
DocsOf(F, n) == {Flatten(t) : t \in UNION {[1..k -> F] : k \in 0..n}}

HeaderFrags ==
    {Chars("# Title"), Chars("## B"), Chars("##### E"), Chars("x"), <<NL>>}
ListFrags ==
    {Chars("- a\n"), Chars("- b\n"), Chars("- a"), Chars("x\n"), <<NL>>}
CodeFrags ==
    {Fence \o <<NL>>, Fence \o Chars("py\n"), Chars("$x=1$\n"), Chars("x\n"), Fence,
     <<BT>> \o Chars("x") \o <<BT>>}
LinkFrags ==
    {Chars("[[A]]"), Chars("[[B|C]]"), Chars(" and "), Chars("[t](u)"), <<NL>>}
ImageFrags ==
    {Chars("![["), Chars("]]"), Chars("a/b/"), Chars("diagram.png"),
     Chars("my_fig.v2.png"), Chars("|300"), Chars("|x")}
MathFrags ==
    {Chars("$a*b*c$"), Chars("$$\nx\n$$\n"), Chars("\\begin{aligned}\nx\n\\end{aligned}"),
     Chars("*i* "), <<NL>>}
FencedFrags ==
    {Fence \o <<NL>>, Fence, Chars("- a\n"), Chars("*a*\n"), Chars("[[A]]\n"),
     Chars("%%c%%\n"), Chars("# T\n")}
FrontFrags ==
    {Chars("---\n"), Chars("title: T\n"), Chars("title: -T\n"), Chars("tags: a\n"),
     Chars("body\n"), Chars("---")}

Adjustments == {0 - 5, 0, 2}
Modes == {"overwrite", "backup", "skip"}

\* Output paths of main: relative, under the working directory (spelled
\* plainly, and with a doubled slash and a "." component), outside it
OutputPaths ==
    {Chars("sections/out.tex"), Cwd \o Chars("/out.tex"),
     Chars("/home/u//thesis/./out.tex"), Chars("/tmp/out.tex")}

\* Contents of the candidate attachment directories
NoAttachments == [d \in possible_attachment_dirs |-> {}]
SomeAttachments ==
    [d \in possible_attachment_dirs |->
        IF d = "attachments" THEN {Chars("diagram.png"), Chars("notes.txt")}
        ELSE IF d = "images" THEN {Chars("my fig.PNG")}
        ELSE {}]

\* A file system with input file text i and output file text o
FileSystem(i, o, att) ==
    [input |-> i, output |-> o, backups |-> [t \in 0..MaxClock |-> NoFile],
     attachments |-> att, figures |-> {}]

(***************************************************************************)
(* convert(): one action for each step, in the order of the code           *)
(***************************************************************************)
\* A pass takes the local 'content' and leaves its result in it
Pass(at, result, next) ==
    /\ pc = at
    /\ prev' = content
    /\ content' = result
    /\ pc' = next
    /\ UNCHANGED <<raw, metadata, adj, fs, clock, call, ret, trace>>

\* f.read() of a file opened in text mode with the default newline: every
\* "\r\n" and every "\r" left of the file's text is read as "\n"
UniversalNewlines(text) ==
    ReplaceChar(ReplaceAll(text, <<"\r", "\n">>, <<"\n">>), "\r", "\n")

\* os.path.exists and the read of the input file.  fs.input is the text of
\* the file as its bytes decode (UTF-8, or latin-1 when they are not UTF-8).
\* convert() returns None when the file is missing, and when open() or
\* f.read() raises another exception than UnicodeDecodeError.
Read ==
    /\ pc = "read"
    /\ \E readable \in BOOLEAN :
          IF fs.input = NoFile \/ ~readable
          THEN /\ pc' = "no_content"
               /\ trace' = Append(trace, "convert:None")
               /\ UNCHANGED <<raw, content>>
          ELSE /\ pc' = "extract"
               /\ raw' = UniversalNewlines(fs.input)
               /\ content' = UniversalNewlines(fs.input)
               /\ UNCHANGED trace
    /\ UNCHANGED <<prev, metadata, adj, fs, clock, call, ret>>

\* self.extract_frontmatter(content): the result is dropped, the metadata kept
ExtractFrontmatter ==
    /\ pc = "extract"
    /\ metadata' = extract_frontmatter(content, metadata)
    /\ pc' = "remove_frontmatter"
    /\ UNCHANGED <<raw, prev, content, adj, fs, clock, call, ret, trace>>

RemoveFrontmatter == Pass("remove_frontmatter", remove_frontmatter(content), "remove_comments")
\* The comment remover handed the text as read instead of the stripper's result
RemoveCommentsOfRaw == Pass("remove_comments", remove_comments(raw), "convert_headers")
RemoveComments == Pass("remove_comments", remove_comments(content), "convert_headers")
ConvertHeaders == Pass("convert_headers", convert_headers(content, adj), "convert_lists")
ConvertLists == Pass("convert_lists", convert_lists(content), "convert_images")
ConvertImages == Pass("convert_images", convert_images(content), "convert_internal_links")
ConvertInternalLinks ==
    Pass("convert_internal_links", convert_internal_links(content), "convert_emphasis")
ConvertEmphasis == Pass("convert_emphasis", convert_emphasis(content), "convert_code_blocks")
ConvertCodeBlocks == Pass("convert_code_blocks", convert_code_blocks(content), "preserve_math")
PreserveMath == Pass("preserve_math", preserve_math(content), "add_section_comment")

\* The last step; convert() returns the text
AddSectionComment ==
    /\ pc = "add_section_comment"
    /\ prev' = content
    /\ content' = add_section_comment(content, metadata, input_file)
    /\ pc' = "converted"
    /\ trace' = Append(trace, "convert")
    /\ UNCHANGED <<raw, metadata, adj, fs, clock, call, ret>>

NextConvert ==
    \/ Read
    \/ ExtractFrontmatter
    \/ RemoveFrontmatter
    \/ RemoveComments
    \/ ConvertHeaders
    \/ ConvertLists
    \/ ConvertImages
    \/ ConvertInternalLinks
    \/ ConvertEmphasis
    \/ ConvertCodeBlocks
    \/ PreserveMath
    \/ AddSectionComment

(***************************************************************************)
(* main() and convert_and_save() after convert() has returned              *)
(***************************************************************************)
\* success = converter.save(latex_content, ...), reached when the content
\* is not empty
Save ==
    /\ pc = "converted"
    /\ call.entry \in {"main", "convert_and_save"}
    /\ \E copied \in CopyOutcomes(fs), written \in WriteOutcomes(content) :
          LET r == save(fs, content, call.mode, clock, copied, written)
          IN  /\ fs' = r.fs
              /\ trace' = Append(trace, IF r.ok THEN "save:True" ELSE "save:False")
              /\ pc' = IF r.ok THEN "saved" ELSE "no_success"
    /\ UNCHANGED <<raw, prev, content, metadata, adj, clock, call, ret>>

\* main skips the images when the mode is skip and the output path exists
MainSkipsImages == call.mode = "skip" /\ fs.output # NoFile

\* self.process_images() after a successful save
ProcessImages ==
    /\ pc = "saved"
    /\ call.entry = "main" => ~MainSkipsImages
    /\ \E failing \in SUBSET {n \in UNION {fs.attachments[d] : d \in possible_attachment_dirs} : IsImageFile(n)} :
          fs' = process_images(fs, failing)
    /\ trace' = Append(trace, "process_images")
    /\ pc' = "images_done"
    /\ UNCHANGED <<raw, prev, content, metadata, adj, clock, call, ret>>

\* main, the else branch: "Existing file was not modified"
SkipImages ==
    /\ pc = "saved"
    /\ call.entry = "main"
    /\ MainSkipsImages
    /\ pc' = "images_done"
    /\ UNCHANGED <<raw, prev, content, metadata, adj, fs, clock, call, ret, trace>>

\* main after the images: the \input hint needs the path relative to the
\* working directory; a ValueError lands in the except clause, which returns 1
MainReturn ==
    /\ pc = "images_done"
    /\ call.entry = "main"
    /\ ret' = IF RelativeToRaises(call.output, Cwd) THEN "1" ELSE "0"
    /\ pc' = "done"
    /\ UNCHANGED <<raw, prev, content, metadata, adj, fs, clock, call, trace>>

\* main when convert returned None or save returned False: "Conversion failed"
MainFails ==
    /\ pc \in {"no_content", "no_success"}
    /\ call.entry = "main"
    /\ ret' = "1"
    /\ pc' = "done"
    /\ UNCHANGED <<raw, prev, content, metadata, adj, fs, clock, call, trace>>

\* convert_and_save returns success, or False without content
ConvertAndSaveReturns ==
    /\ pc \in {"images_done", "no_content", "no_success"}
    /\ call.entry = "convert_and_save"
    /\ ret' = IF pc = "images_done" THEN "True" ELSE "False"
    /\ pc' = "done"
    /\ UNCHANGED <<raw, prev, content, metadata, adj, fs, clock, call, trace>>

NextRun ==
    \/ Save
    \/ ProcessImages
    \/ SkipImages
    \/ MainReturn
    \/ MainFails
    \/ ConvertAndSaveReturns

(***************************************************************************)
(* save() called again and again on one converter                          *)
(***************************************************************************)
SaveContents == {<<>>, Chars("B"), Chars("CD")}

\* One call of save(); trace counts the calls and keeps the texts that
\* successful backup-mode calls replaced in the output file
SaveCall ==
    /\ pc = "idle"
    /\ trace.calls < MaxSaves
    /\ \E c \in SaveContents, m \in Modes :
       \E copied \in CopyOutcomes(fs), written \in WriteOutcomes(c) :
          LET r == save(fs, c, m, clock, copied, written)
          IN  /\ fs' = r.fs
              /\ ret' = IF r.ok THEN "True" ELSE "False"
              /\ call' = [entry |-> "save", mode |-> m, content |-> c,
                          existed |-> fs.output # NoFile, written |-> written]
              /\ trace' = [calls |-> trace.calls + 1,
                           replaced |-> IF r.ok /\ m = "backup" /\ fs.output # NoFile
                                        THEN trace.replaced \cup {fs.output}
                                        ELSE trace.replaced]
    /\ UNCHANGED <<pc, raw, prev, content, metadata, adj, clock>>

\* A second passes
Tick ==
    /\ pc = "idle"
    /\ clock < MaxClock
    /\ clock' = clock + 1
    /\ UNCHANGED <<pc, raw, prev, content, metadata, adj, fs, call, ret, trace>>

NextSave == SaveCall \/ Tick

(***************************************************************************)
(* A statement of a pass raises (re.sub, re.findall and str.replace can    *)
(* raise MemoryError, an Exception): the except clause of the pass logs    *)
(* the error and returns the local 'content' as it is at that moment.      *)
(* replace_image, _process_md_image and replace_code_block catch their     *)
(* own exceptions and return the match untouched.                          *)
(***************************************************************************)
\* convert_headers: 'content' before each re.sub of the loop that is reached
RECURSIVE HeaderHeld(_, _, _)
HeaderHeld(s, i, a) ==
    IF i >= 5 THEN <<>>
    ELSE IF TemplateError(HeaderTemplate(i, a)) THEN <<s>>
    ELSE <<s>> \o HeaderHeld(SubHeaders(s, i + 1, HeaderTemplate(i, a)), i + 1, a)

\* convert_lists: 'content' before re.sub, before re.findall, and before each
\* content.replace of the loop
ListHeld(s) ==
    LET items == ReSub(s, [i \in 1..Len(s) |->
                       Sub(BulletMatch(s, i), ItemRepl(s, BulletMatch(s, i)))])
        blocks == ItemBlocks(items)
    IN  <<s, items>> \o [k \in 1..Len(blocks) |-> WrapBlocks(items, SubSeq(blocks, 1, k - 1))]

\* The starts of the matches re.sub replaces, in the order it calls the
\* replacement function on them
ScanStarts(s, subs) ==
    LET Starts == {i \in 1..Len(s) : subs[i].end > 0}
        F[i \in 1..Len(s) + 1] ==
            LET N == {j \in Starts : j >= i}
            IN  IF N = {} THEN <<>>
                ELSE <<Min(N)>> \o F[subs[Min(N)].end + 1]
    IN  F[1]

\* The replacement function raises on the match that starts at j: its own
\* except clause returns match.group(0) for that match, and re.sub goes on
Unreplaced(s, subs, j) ==
    [i \in 1..Len(s) |->
        IF i = j THEN [end |-> subs[i].end, repl |-> SubSeq(s, i, subs[i].end)]
        ELSE subs[i]]

\* convert_images: 'content' before each of the two re.sub; and what the pass
\* returns when replace_image, or _process_md_image, raises on one match
ImageHeld(s) ==
    LET Embeds(t) == [i \in 1..Len(t) |-> Sub(EmbedMatch(t, i), EmbedRepl(t, EmbedMatch(t, i)))]
        MdImages(t) == [i \in 1..Len(t) |->
                           Sub(MdImageMatch(t, i), MdImageRepl(t, MdImageMatch(t, i)))]
        s1 == ReSub(s, Embeds(s))
        embed == ScanStarts(s, Embeds(s))
        md == ScanStarts(s1, MdImages(s1))
    IN  <<s, s1>>
        \o [k \in 1..Len(embed) |->
               LET t == ReSub(s, Unreplaced(s, Embeds(s), embed[k]))
               IN  ReSub(t, MdImages(t))]
        \o [k \in 1..Len(md) |-> ReSub(s1, Unreplaced(s1, MdImages(s1), md[k]))]

\* convert_code_blocks: 'content' before each of the two re.sub; and what the
\* pass returns when replace_code_block raises on one fenced block: the
\* second re.sub then finds the backquotes the block has kept
CodeHeld(s) ==
    LET Fences == [i \in 1..Len(s) |->
                      Sub(FenceMatch(s, i), replace_code_block(s, FenceMatch(s, i)))]
        fence == ScanStarts(s, Fences)
        Inline(t) == IF TemplateError(InlineCodeTemplate) THEN t
                     ELSE ReSub(t, [i \in 1..Len(t) |->
                              Sub(InlineCodeMatch(t, i), InlineCodeRepl(t, InlineCodeMatch(t, i)))])
    IN  <<s, ConvertFences(s)>>
        \o [k \in 1..Len(fence) |-> Inline(ReSub(s, Unreplaced(s, Fences, fence[k])))]

\* convert_internal_links: 'content' before each of the three re.sub
LinkHeld(s) ==
    LET s1 == ReSub(s, [i \in 1..Len(s) |->
                    Sub(DisplayLinkMatch(s, i), DisplayLinkRepl(s, DisplayLinkMatch(s, i)))])
        s2 == ReSub(s1, [i \in 1..Len(s1) |->
                    Sub(PlainLinkMatch(s1, i), PlainLinkRepl(s1, PlainLinkMatch(s1, i)))])
    IN  <<s, s1, s2>>

\* convert_emphasis: 'content' before each of the three re.sub
EmphasisHeld(s) ==
    LET s1 == ReSub(s, [i \in 1..Len(s) |-> Sub(BoldMatch(s, i), BoldRepl(s, BoldMatch(s, i)))])
        s2 == ReSub(s1, [i \in 1..Len(s1) |->
                    Sub(ItalicMatch(s1, i), ItalicRepl(s1, ItalicMatch(s1, i)))])
    IN  <<s, s1, s2>>

\* The passes of convert() in order, and the position after each
Passes ==
    <<"remove_frontmatter", "remove_comments", "convert_headers", "convert_lists",
      "convert_images", "convert_internal_links", "convert_emphasis",
      "convert_code_blocks", "preserve_math", "add_section_comment">>

NextPass(at) ==
    IF at = "add_section_comment" THEN "converted"
    ELSE Passes[(CHOOSE k \in 1..Len(Passes) : Passes[k] = at) + 1]

\* The texts pass 'at' can return for the text s when one statement of its
\* work raises: one for each statement of the pass, whose except clause
\* returns 'content', and one for each call of a replacement function that
\* catches its own exception.  A pass of one statement holds its argument
\* only.
Held(at, s, a) ==
    CASE at = "convert_headers" -> HeaderHeld(s, 0, a)
      [] at = "convert_lists" -> ListHeld(s)
      [] at = "convert_images" -> ImageHeld(s)
      [] at = "convert_internal_links" -> LinkHeld(s)
      [] at = "convert_emphasis" -> EmphasisHeld(s)
      [] at = "convert_code_blocks" -> CodeHeld(s)
      [] OTHER -> <<s>>

\* A statement of the pass about to run raises; convert() goes on with what
\* the pass returned
PassRaises ==
    /\ pc \in {Passes[k] : k \in 1..Len(Passes)}
    /\ Cardinality({k \in 1..Len(trace) : trace[k] = "raised"}) < MaxFaults
    /\ \E k \in 1..Len(Held(pc, content, adj)) : content' = Held(pc, content, adj)[k]
    /\ prev' = content
    /\ pc' = NextPass(pc)
    /\ trace' = trace \o <<"raised", pc>>
                      \o (IF pc = "add_section_comment" THEN <<"convert">> ELSE <<>>)
    /\ UNCHANGED <<raw, metadata, adj, fs, clock, call, ret>>

NextFaults == NextConvert \/ PassRaises

(***************************************************************************)
(* Specifications                                                          *)
(***************************************************************************)
\* What every run starts from: a fresh converter
Fresh ==
    /\ raw = <<>>
    /\ prev = <<>>
    /\ content = <<>>
    /\ metadata = DefaultMetadata
    /\ ret = ""

\* convert(level_adjustment) on one document
InitConvert ==
    /\ Fresh
    /\ pc = "read"
    /\ call = [entry |-> "convert", mode |-> "overwrite", output |-> Chars("out.tex")]
    /\ clock = 0
    /\ trace = <<>>
    /\ \/ /\ adj \in Adjustments
          /\ \E d \in DocsOf(HeaderFrags, MaxFrags) : fs = FileSystem(d, NoFile, NoAttachments)
       \/ /\ adj = 0
          /\ \E d \in DocsOf(ListFrags, MaxFrags) \cup DocsOf(CodeFrags, MaxFrags)
                      \cup DocsOf(LinkFrags, MaxFrags) \cup DocsOf(ImageFrags, MaxFrags)
                      \cup DocsOf(MathFrags, MaxFrags) \cup DocsOf(FencedFrags, MaxFrags)
                      \cup DocsOf(FrontFrags, MaxFrontFrags) \cup {NoFile} :
                fs = FileSystem(d, NoFile, NoAttachments)

SpecConvert == InitConvert /\ [][NextConvert]_vars

\* Documents with something for every pass of the pipeline to do
PipeFrags ==
    {Chars("---\ntitle: T\n---\n"), Chars("# H\n- a\n"), Chars("**b** [[A]]\n"),
     Chars("%%c%%\n"), <<BT>> \o Chars("x") \o <<BT, NL>>}

\* Documents with comment markers
CommentFrags == {Chars("%%"), Chars("%"), Chars("a"), Chars("b"), <<NL>>}

\* convert(level_adjustment) on one of these documents
InitPipeline ==
    /\ Fresh
    /\ pc = "read"
    /\ call = [entry |-> "convert", mode |-> "overwrite", output |-> Chars("out.tex")]
    /\ clock = 0
    /\ trace = <<>>
    /\ adj \in {0, 1}
    /\ \E d \in DocsOf(PipeFrags, MaxPipeFrags) \cup DocsOf(CommentFrags, MaxPipeFrags) :
          fs = FileSystem(d, NoFile, NoAttachments)

SpecPipeline == InitPipeline /\ [][NextConvert]_vars

\* convert() is called again on the same converter, after the input file
\* was edited: the locals are new, self.metadata is what the call before
\* left in it
ConvertAgain ==
    /\ pc = "converted"
    /\ call.entry = "convert"
    /\ Cardinality({k \in 1..Len(trace) : trace[k] = "convert"}) < MaxConverts
    /\ \E d \in {Chars("---\ntitle: U\n---\nbody\n"), Chars("---\ntags: a\n---\nbody\n"),
                 Chars("---\ntags: -a\n---\nbody\n"), Chars("body\n")} :
          fs' = [fs EXCEPT !.input = d]
    /\ pc' = "read"
    /\ raw' = <<>>
    /\ prev' = <<>>
    /\ content' = <<>>
    /\ UNCHANGED <<metadata, adj, clock, call, ret, trace>>

SpecReconvert == InitPipeline /\ [][NextConvert \/ ConvertAgain]_vars

\* Documents converted with a statement that raises
FaultFrags ==
    {Chars("- a\n"), Chars("[[A]]"), Chars("[[B|C]]"), Chars("*a*"), Chars("**b**"),
     <<BT>> \o Chars("x") \o <<BT>>, Chars("x\n"),
     Chars("![[a.png]]"), Chars("![x](y.png)"), Fence \o Chars("\nx\n") \o Fence}

\* convert() on one document, with statements that may raise
InitFaults ==
    /\ Fresh
    /\ pc = "read"
    /\ call = [entry |-> "convert", mode |-> "overwrite", output |-> Chars("out.tex")]
    /\ clock = 0
    /\ trace = <<>>
    /\ adj = 0
    /\ \E d \in DocsOf(FaultFrags, MaxFaultFrags) : fs = FileSystem(d, NoFile, NoAttachments)

SpecFaults == InitFaults /\ [][NextFaults]_vars

\* Documents of the runs of main and convert_and_save
RunDocs ==
    {Chars("# T\n- a\n"), Chars("# T\r\n- a\r- b\n"),
     Chars("---\ntitle: T\n---\n![[d.png]]\n"),
     Chars("![[diagram.png]]\n"), Chars("![[my fig.PNG]]\n"), Chars("![a](my fig.PNG)\n")}

\* One run of main(), or of convert_and_save() on a converter made by hand
Init ==
    /\ Fresh
    /\ pc = "read"
    /\ clock = 0
    /\ trace = <<>>
    /\ \/ /\ adj \in {0, 1}
          /\ \E m \in Modes, o \in OutputPaths :
                call = [entry |-> "main", mode |-> m, output |-> o]
       \/ /\ adj = 0
          /\ call = [entry |-> "convert_and_save", mode |-> "overwrite",
                     output |-> Chars("out.tex")]
    /\ \E i \in RunDocs \cup {NoFile}, o \in {NoFile, Chars("old")},
          att \in {NoAttachments, SomeAttachments} :
          fs = FileSystem(i, o, att)

Next == NextConvert \/ NextRun

Spec == Init /\ [][Next]_vars

\* A converter whose save() is called up to MaxSaves times
InitSave ==
    /\ Fresh
    /\ pc = "idle"
    /\ adj = 0
    /\ clock = 0
    /\ call = [entry |-> "save", mode |-> "overwrite", content |-> <<>>,
               existed |-> FALSE, written |-> 0]
    /\ trace = [calls |-> 0, replaced |-> {}]
    /\ \E o \in {NoFile, Chars("A")} : fs = FileSystem(NoFile, o, NoAttachments)

SpecSave == InitSave /\ [][NextSave]_vars

(***************************************************************************)
(* What the claims expect                                                  *)
(***************************************************************************)
InTrace(e) == \E k \in 1..Len(trace) : trace[k] = e

\* The number of occurrences of lit in s
Count(s, lit) == Cardinality({i \in 1..Len(s) : StartsAt(s, lit, i)})

\* The k-th smallest element of a set of numbers
Nth(S, k) == CHOOSE x \in S : Cardinality({y \in S : y < x}) = k - 1

\* Number of # characters a line begins with
Hashes(line) ==
    LET K == {k \in 1..Len(line) : line[k] # "#"}
    IN  IF K = {} THEN Len(line) ELSE Min(K) - 1

\* A heading line of depth d in 1..5 becomes the command at index
\* min(4, max(0, (d-1)+a)); any other line stays
ExpectedHeaderLine(line, a) ==
    LET d == Hashes(line)
        idx == Min({4, Max({0, (d - 1) + a})})
    IN  IF d \in 1..5 /\ Len(line) > d /\ line[d + 1] = " "
        THEN section_commands[idx + 1] \o <<"{">> \o From(line, d + 2) \o <<"}">>
        ELSE line

ExpectedHeaders(s, a) ==
    LET lines == Split(s, NL)
    IN  Join([k \in 1..Len(lines) |-> ExpectedHeaderLine(lines[k], a)], <<NL>>)

\* C1: after convert_headers ran with level adjustment a, every heading line
\* of depth d in 1..5 is the sectioning command at index min(4, max(0, d-1+a))
\* applied to the heading text, and the other lines are as they were.
C1_HeadersLevelled ==
    pc = "convert_lists" => content = ExpectedHeaders(prev, adj)

\* The maximal runs of consecutive dash-bullet lines of s, each run the
\* sequence of its item texts
BulletRuns(s) ==
    LET lines == Split(s, NL)
        Bullet(k) == StartsAt(lines[k], Chars("- "), 1)
        F[i \in 1..Len(lines) + 1] ==
            IF i > Len(lines) THEN <<>>
            ELSE IF ~Bullet(i) THEN F[i + 1]
            ELSE LET j == Max({e \in i..Len(lines) : \A k \in i..e : Bullet(k)})
                 IN  <<[k \in 1..(j - i + 1) |-> From(lines[i + k - 1], 3)]>> \o F[j + 1]
    IN  F[1]

\* The item texts between indices a and b of s: what follows each \item on its line
ItemsBetween(s, a, b) ==
    LET I == {i \in a..b : StartsAt(s, Chars("\\item "), i)}
    IN  [k \in 1..Cardinality(I) |->
            SubSeq(s, Nth(I, k) + 6, Min({LineEnd(s, Nth(I, k)), b + 1}) - 1)]

\* The itemize blocks of s: for every \begin{itemize}, the items up to the
\* next \end{itemize}
ItemizeBlocks(s) ==
    LET B == {i \in 1..Len(s) : StartsAt(s, Chars("\\begin{itemize}"), i)}
        End(i) == LET e == Find(s, Chars("\\end{itemize}"), i)
                  IN  IF e = 0 THEN Len(s) ELSE e - 1
    IN  [k \in 1..Cardinality(B) |-> ItemsBetween(s, Nth(B, k), End(Nth(B, k)))]

\* C2: after convert_lists, every maximal run of consecutive dash-bullet lines
\* is wrapped in exactly one \begin{itemize} / \end{itemize} pair that holds
\* exactly the items of that run: there are as many pairs as runs, no item is
\* outside a pair, and the k-th pair holds the items of the k-th run.
C2_OneBlockPerRun ==
    pc = "convert_images" =>
        /\ ItemizeBlocks(content) = BulletRuns(prev)
        /\ Count(content, Chars("\\end{itemize}")) = Len(BulletRuns(prev))

\* s is one fenced block and nothing else, its content one dollar-delimited
\* math expression
IsFencedMath(s) ==
    LET m == FenceMatch(s, 1)
    IN  /\ m.end = Len(s)
        /\ m.end > 0
        /\ IsMathBlock(m.g2)
        /\ \A k \in 1..Len(m.g2) : m.g2[k] # BT

\* C3: convert_code_blocks returns a fenced block whose content is a single
\* dollar-delimited math expression byte for byte as it was given, fences
\* included.
C3_MathFenceUntouched ==
    (pc = "preserve_math" /\ IsFencedMath(prev)) => content = prev

\* Every link rewritten on its own: [[Target|Display]] is \textit{Display},
\* [[Target]] is \textit{Target}, [text](url) is \href{url}{text}; a link
\* ends at the first closing bracket pair after its opening
ExpectedLinkMatch(s, i) ==
    IF StartsAt(s, Chars("[["), i) THEN PlainLinkMatch(s, i) ELSE MdLinkMatch(s, i)

ExpectedLinkRepl(s, m) ==
    IF StartsAt(s, Chars("[["), m.start)
    THEN LET p == Find(m.g1, <<"|">>, 1)
         IN  Chars("\\textit{") \o (IF p > 0 THEN From(m.g1, p + 1) ELSE m.g1) \o <<"}">>
    ELSE Chars("\\href{") \o m.g2 \o Chars("}{") \o m.g1 \o <<"}">>

ExpectedLinks(s) == ReSub(s, [i \in 1..Len(s) |->
                          Sub(ExpectedLinkMatch(s, i),
                              ExpectedLinkRepl(s, ExpectedLinkMatch(s, i)))])

\* C4: convert_internal_links rewrites each link of a document made of links
\* and the text between them independently of the links around it; the
\* display-text substitution consumes no plain link and no text between links.
C4_LinksIndependent ==
    (pc = "convert_emphasis" /\ prev \in DocsOf(LinkFrags, MaxFrags))
        => content = ExpectedLinks(prev)

\* The basename without its extension, the part from the last dot on
StripExtension(filename) ==
    LET D == {k \in 2..Len(filename) : filename[k] = "."}
    IN  IF D = {} THEN filename ELSE SubSeq(filename, 1, Max(D) - 1)

\* The reference figure of ![[g]]
ExpectedFigure(g) ==
    LET fields == Split(g, "|")
        filename == Basename(Strip(fields[1], Whitespace))
        clean == CleanFilename(filename)
        width == IF Len(fields) >= 2 /\ IsDigit(Strip(fields[2], Whitespace))
                 THEN Chars("[width=") \o Strip(fields[2], Whitespace) \o Chars("pt]")
                 ELSE <<>>
    IN  Chars("\n\\begin{figure}[htbp]\n    \\centering\n    \\includegraphics")
        \o width \o <<"{">> \o figures_dir \o <<"/">> \o clean
        \o Chars("}\n    \\caption{") \o StripExtension(ReplaceChar(filename, "_", " "))
        \o Chars("}\n    \\label{fig:") \o ReplaceChar(clean, ".", "_")
        \o Chars("}\n\\end{figure}\n")

\* s is one embed ![[...]] and nothing else
IsEmbed(s) == EmbedMatch(s, 1).end = Len(s) /\ Len(s) > 0

\* C5: for the embed syntax convert_images emits the reference figure: a width
\* directive exactly for a numeric size, the sanitized basename under the
\* figures directory, the caption the basename with underscores as spaces and
\* without its extension, the label fig: and the sanitized basename with
\* dots replaced.
C5_EmbedFigure ==
    (pc = "convert_internal_links" /\ IsEmbed(prev))
        => content = ExpectedFigure(EmbedMatch(prev, 1).g1)

\* C6: main returns 0 whenever conversion and save both succeeded, whatever
\* the output path and the overwrite mode, and 1 otherwise.
C6_ExitCode ==
    (pc = "done" /\ call.entry = "main") =>
        IF InTrace("convert") /\ InTrace("save:True") THEN ret = "0" ELSE ret = "1"

\* C7: every text that a successful backup-mode save replaced in the output
\* file is still held by a backup file, and after such a save the output
\* file holds the new content.
C7_BackupKeepsOld ==
    /\ \A c \in trace.replaced : \E t \in DOMAIN fs.backups : fs.backups[t] = c
    /\ (trace.calls > 0 /\ call.mode = "backup" /\ call.existed /\ ret = "True")
          => fs.output = call.content

\* The step is a call of save() in skip mode
SkipCall == trace'.calls = trace.calls + 1 /\ call'.mode = "skip"

\* C8 as claimed: save(content, 'skip') on an existing output file changes no
\* file and returns True; on a missing one it writes the content and returns
\* True.
C8_SkipAsClaimed ==
    [][SkipCall =>
          /\ ret' = "True"
          /\ fs' = IF fs.output # NoFile THEN fs
                   ELSE [fs EXCEPT !.output = call'.content]]_vars

\* C8, amended: the above holds for a content that is not empty and a write
\* that succeeds.  save() in skip mode with an empty content changes no file
\* and returns False; on a missing output file that cannot be opened it
\* changes no file and returns False; on a missing output file whose write
\* fails after the open it returns False and leaves an output file that
\* holds the part of the content written before the failure, no other file
\* changed.
C8_SkipSave ==
    [][SkipCall =>
          IF call'.content = <<>> THEN fs' = fs /\ ret' = "False"
          ELSE IF fs.output # NoFile THEN fs' = fs /\ ret' = "True"
          ELSE IF call'.written = Len(call'.content)
               THEN fs' = [fs EXCEPT !.output = call'.content] /\ ret' = "True"
          ELSE IF call'.written < 0 THEN fs' = fs /\ ret' = "False"
          ELSE /\ ret' = "False"
               /\ \E n \in 0..(Len(call'.content) - 1) :
                     fs' = [fs EXCEPT !.output = SubSeq(call'.content, 1, n)]]_vars

\* A skip-mode save found the output file, left its text and returned True
C8_Witness ==
    /\ trace.calls > 0
    /\ call.mode = "skip"
    /\ call.existed
    /\ call.content # <<>>
    /\ ret = "True"
    /\ fs.output \notin {NoFile, call.content}

\* The passes of convert() between the frontmatter and the header comment
Body(s, a) ==
    preserve_math(convert_code_blocks(convert_emphasis(convert_internal_links(
        convert_images(convert_lists(convert_headers(remove_comments(s), a)))))))

\* The lines of the generated header comment of an output: up to the line
\* that holds a percent sign alone
CommentLines(out) ==
    LET lines == Split(out, NL)
        E == {k \in 1..Len(lines) : lines[k] = <<"%">>}
    IN  IF E = {} THEN lines ELSE SubSeq(lines, 1, Min(E))

\* What follows the header comment and its blank line
AfterComment(out) ==
    LET e == Find(out, Chars("\n%\n\n"), 1)
    IN  IF e = 0 THEN out ELSE From(out, e + 4)

\* str.lstrip()
LStrip(s) ==
    LET K == {k \in 1..Len(s) : s[k] \notin Whitespace}
    IN  IF K = {} THEN <<>> ELSE From(s, Min(K))

\* C9: for a document whose first lines are a block between two lines of
\* exactly three dashes with one line 'title: T' in it, the header comment of
\* the output of convert() has exactly one line '% Title: T', and what
\* follows the header comment is the conversion of the text after the block
\* alone.
C9_FrontmatterRoundTrip ==
    LET lines == Split(raw, NL)
        J == {j \in 2..Len(lines) : lines[j] = Chars("---")}
        K == {k \in 2..(Min(J) - 1) : StartsAt(lines[k], Chars("title: "), 1)}
        title == From(lines[CHOOSE k \in K : TRUE], 8)
        rest == Join(SubSeq(lines, Min(J) + 1, Len(lines)), <<NL>>)
        head == CommentLines(content)
    IN  (/\ pc = "converted"
         /\ Len(lines) >= 3
         /\ lines[1] = Chars("---")
         /\ J # {}
         /\ Cardinality(K) = 1)
        => /\ Cardinality({k \in 1..Len(head) : head[k] = Chars("% Title: ") \o title}) = 1
           /\ AfterComment(content) \in {Body(rest, adj), Body(LStrip(rest), adj)}

\* C10: process_images runs only after a save that returned True, and it has
\* run by the time the entry point returns whenever save returned True.
C10_ImagesAfterSave ==
    /\ \A k \in 1..Len(trace) :
          trace[k] = "process_images" => \E j \in 1..(k - 1) : trace[j] = "save:True"
    /\ (pc = "done" /\ InTrace("save:True")) => InTrace("process_images")

\* The pass whose statement raised, "" when none did
RaisedAt ==
    LET K == {k \in 1..Len(trace) : trace[k] = "raised"}
    IN  IF K = {} THEN "" ELSE trace[Min(K) + 1]

\* C11: a pass that fails at any statement returns exactly the text it was
\* given, and convert() goes on and returns a text, never None.
C11_FailSoft ==
    /\ (RaisedAt # "" /\ pc = NextPass(RaisedAt)) => content = prev
    /\ RaisedAt # "" => pc # "no_content"

\* The order of the passes, as the claim lists it
ClaimedOrder ==
    <<"frontmatter stripping", "comment removal", "header leveling", "list building",
      "image resolution", "link resolution", "emphasis resolution",
      "code block resolution", "math passthrough", "header comment injection">>

\* The pass of that name applied to text s, with the metadata the extractor
\* finds in the raw text r
Applied(name, s, r, a) ==
    CASE name = "frontmatter stripping" -> remove_frontmatter(s)
      [] name = "comment removal" -> remove_comments(s)
      [] name = "header leveling" -> convert_headers(s, a)
      [] name = "list building" -> convert_lists(s)
      [] name = "image resolution" -> convert_images(s)
      [] name = "link resolution" -> convert_internal_links(s)
      [] name = "emphasis resolution" -> convert_emphasis(s)
      [] name = "code block resolution" -> convert_code_blocks(s)
      [] name = "math passthrough" -> preserve_math(s)
      [] name = "header comment injection" ->
             add_section_comment(s, extract_frontmatter(r, DefaultMetadata), input_file)

\* The raw text r after the first k passes of the claimed order
RECURSIVE Staged(_, _, _)
Staged(k, r, a) ==
    IF k = 0 THEN r ELSE Applied(ClaimedOrder[k], Staged(k - 1, r, a), r, a)

\* Where convert() stands when k passes have run
After(k) ==
    <<"remove_frontmatter", "remove_comments", "convert_headers", "convert_lists",
      "convert_images", "convert_internal_links", "convert_emphasis",
      "convert_code_blocks", "preserve_math", "add_section_comment", "converted">>[k + 1]

\* C12: convert() applies the passes once each in the claimed order, each on
\* the text the pass before it returned, and the metadata is what the
\* extractor finds in the raw text.
C12_PipelineOrder ==
    /\ \A k \in 1..10 :
          pc = After(k) =>
              LET given == Staged(k - 1, raw, adj)
              IN  /\ prev = given
                  /\ content = Applied(ClaimedOrder[k], given, raw, adj)
    /\ \A k \in 0..10 : pc = After(k) => metadata = extract_frontmatter(raw, DefaultMetadata)

\* A document with frontmatter went through every pass
C12_Witness ==
    /\ pc = "converted"
    /\ raw = Chars("---\ntitle: T\n---\n**b** [[A]]\n")
    /\ metadata.title = PyStr(<<"T">>)
    /\ content = Chars("% Auto-generated from Obsidian markdown\n% Source: in.md\n")
                 \o Chars("% Title: T\n%\n\n\\textbf{b} \\textit{A}\n")

\* The math of a text: the spans between two double dollars and between two
\* single dollars, from left to right
MathSpans(s) ==
    LET F[i \in 1..Len(s) + 1] ==
            LET d == Find(s, <<"$">>, i)
                open == IF StartsAt(s, Chars("$$"), d) THEN Chars("$$") ELSE <<"$">>
                e == Find(s, open, d + Len(open))
            IN  IF d = 0 \/ e = 0 THEN {}
                ELSE {SubSeq(s, d, e + Len(open) - 1)} \cup F[e + Len(open)]
    IN  F[1]

\* C13: every math span of the input is in the output of convert() character
\* for character, and preserve_math returns the text it is given.
C13_MathUntouched ==
    /\ pc = "converted" => \A m \in MathSpans(raw) : Find(content, m, 1) > 0
    /\ pc = "add_section_comment" => content = prev

\* The text is one fenced block and nothing else: the index of the newline
\* that ends the opening fence, 0 otherwise
FenceLine(s) ==
    LET n == IF StartsAt(s, Fence, 1) THEN Find(s, <<NL>>, 4) ELSE 0
    IN  IF n > 0 /\ Find(s, Fence, 4) = Len(s) - 2 /\ Len(s) - 2 > n THEN n ELSE 0

\* Its language tag and its code
FenceTag(s) == Strip(SubSeq(s, 4, FenceLine(s) - 1), Whitespace)
FenceCode(s) == SubSeq(s, FenceLine(s) + 1, Len(s) - 3)

\* The environments the claim allows for a tag and a code, with or without a
\* line break after the opening and before the closing command
ExpectedEnvs(tag, code) ==
    LET open == IF tag = <<>> THEN Chars("\\begin{verbatim}")
                ELSE Chars("\\begin{lstlisting}[language=") \o tag \o <<"]">>
        close == IF tag = <<>> THEN Chars("\\end{verbatim}") ELSE Chars("\\end{lstlisting}")
    IN  {open \o a \o code \o b \o close : a \in {<<>>, <<NL>>}, b \in {<<>>, <<NL>>}}

\* C14: a fenced block that is not math becomes one verbatim environment when
\* it has no language tag, one lstlisting environment naming the tag when it
\* has one, and the environment holds the code of the block unchanged.
C14_CodeEnvironment ==
    (pc = "preserve_math" /\ FenceLine(prev) > 0 /\ ~IsFencedMath(prev))
        => content \in ExpectedEnvs(FenceTag(prev), FenceCode(prev))

\* The double-percent markers of a text, from left to right, none
\* overlapping the one before it
Markers(s) ==
    LET F[i \in 1..Len(s) + 2] ==
            LET j == Find(s, Chars("%%"), i)
            IN  IF j = 0 THEN <<>> ELSE <<j>> \o F[j + 2]
    IN  F[1]

\* The text without the spans from an odd marker to the even marker that
\* follows it; a last odd marker has no closing marker and stays
WithoutComments(s) ==
    LET m == Markers(s)
        InSpan(p) == \E k \in 1..(Len(m) \div 2) : m[2 * k - 1] <= p /\ p <= m[2 * k] + 1
        Kept == {p \in 1..Len(s) : ~InSpan(p)}
        F[i \in 1..Len(s) + 1] ==
            LET N == {p \in Kept : p >= i}
            IN  IF N = {} THEN <<>> ELSE <<s[Min(N)]>> \o F[Min(N) + 1]
    IN  F[1]

\* C15: remove_comments deletes every span from a double-percent marker to
\* the next one, over line breaks too, keeps a marker without a closing one
\* and all that follows it, and alters nothing outside the deleted spans.
C15_CommentsRemoved ==
    pc = "convert_headers" =>
        /\ content = WithoutComments(prev)
        /\ Len(Markers(prev)) = 1 => content = prev

\* A comment over two lines was deleted
C15_Witness ==
    /\ pc = "convert_headers"
    /\ prev = Chars("%%\n%%")
    /\ content = <<>>

\* C16: in every call of convert() on one converter the metadata starts at
\* its defaults, the header comment is the one of the frontmatter of the
\* document that call read, and the tags are always a sequence of texts.
C16_MetadataPerConversion ==
    /\ pc = "extract" => metadata = DefaultMetadata
    /\ pc = "converted" =>
          LET header == SectionComment(extract_frontmatter(raw, DefaultMetadata), input_file)
          IN  SubSeq(content, 1, Len(header)) = header
    /\ metadata.tags.list

\* C17: the code of a fenced block is in the output of convert() character
\* for character: no pass rewrites the lines between the fences.
C17_FencedCodeSurvives ==
    (pc = "converted" /\ FenceLine(raw) > 0 /\ ~IsFencedMath(raw))
        => Find(content, FenceCode(raw), 1) > 0

\* The image files of the candidate directories that text s refers to, in
\* either syntax
Referenced(s, f) ==
    {n \in UNION {f.attachments[d] : d \in DOMAIN f.attachments} :
        /\ IsImageFile(n)
        /\ \/ Find(s, Chars("![[") \o n \o Chars("]]"), 1) > 0
           \/ Find(s, Chars("](") \o n \o Chars(")"), 1) > 0}

\* The file names the \includegraphics commands of a text name under the
\* figures directory
IncludedFiles(out) ==
    LET open == Chars("{") \o figures_dir \o Chars("/")
    IN  {SubSeq(out, j + Len(open), Find(out, <<"}">>, j) - 1) :
            j \in {i \in 1..Len(out) : StartsAt(out, open, i)}}

\* C18: after process_images has copied the image files a document refers
\* to, every path an \includegraphics command of the output names is a file
\* of the figures directory.
C18_FigurePathsExist ==
    (/\ pc = "done"
     /\ InTrace("process_images")
     /\ Referenced(raw, fs) # {}
     /\ Referenced(raw, fs) \subseteq fs.figures)
    => IncludedFiles(content) \subseteq fs.figures

====
